---- MODULE Spec2Model ----
(***************************************************************************)
(* A model of backend/pipeline_core.py (SpeechDiarizationPipeline) and of  *)
(* the parts of backend/config.py it reads.                                *)
(*                                                                         *)
(* Time is counted in integer milliseconds: chunk offsets are whole        *)
(* milliseconds in the code (pydub lengths), word timestamps are rounded   *)
(* to three decimals of a second by _perform_asr_on_chunk, 1.0 s is 1000   *)
(* and 0.1 s is 100.  A word's midpoint may fall on a half millisecond, so *)
(* the midpoint is carried doubled (twice its value) and compared with     *)
(* doubled interval bounds.                                                *)
(*                                                                         *)
(* A text is a sequence of one-character strings, so that concatenation    *)
(* and str.strip are computed, not assumed.                                *)
(***************************************************************************)
EXTENDS Integers, Sequences, FiniteSets, TLC

VARIABLES
    config,                \* DiarizationConfig fields read by the pipeline
    audio,                 \* the input file: [is_file, duration_ms, decodable]
    diarization_cache,     \* file at config.diarization_cache_path
    asr_cache,             \* file at config.asr_cache_file_path
    transcript,            \* file at config.output_transcript_path
    temp_chunk_files,      \* number of temporary chunk .wav files on disk
    pc,                    \* position inside run()
    run_result,            \* what run() returned
    diarization_result,    \* local of run()
    asr_result,            \* local of run() / _perform_asr
    i_start_ms,            \* loop variable of the batched ASR loop
    all_word_segments,     \* accumulator of the batched ASR loop
    full_text_parts,       \* accumulator of the batched ASR loop
    chunk_word_segments,   \* result of _perform_asr_on_chunk for the current chunk
    last_asr_chunk_result, \* asr_chunk_result of the latest _perform_asr_on_chunk call
    chunk_exc,             \* an exception is propagating out of the chunk's try body
    word_index,            \* loop index of _combine_results (0-based, next word)
    current_segment,       \* local of _combine_results
    final_segments,        \* local of _combine_results
    active_speaker,        \* speaker returned by the latest _get_speaker_for_word
    run_no,                \* number of the current run() over the same output dir
    prev_result,           \* what the previous run() returned
    windows,               \* the (start, end) windows the batched loop has produced
    engine_calls,          \* [diarization, asr]: engine invocations in this run
    cache_reads,           \* [diarization, asr]: cache files opened for reading in this run
    stage_log,             \* stages of run() entered in this run, in order
    args,                  \* arguments DiarizationConfig was (or will be) constructed with
    rival_args,            \* arguments of a second configuration for the same file and directory
    cache_paths,           \* cache file paths resolved by the constructed configurations
    engine_failed,         \* [diarization, asr]: an engine call of this run raised
    caches_at_start,       \* [diarization, asr]: the cache files as this run found them
    sealed_texts           \* texts of the segments _combine_results has sealed, before strip()

vars == << config, audio, diarization_cache, asr_cache, transcript,
           temp_chunk_files, pc, run_result, diarization_result, asr_result,
           i_start_ms, all_word_segments, full_text_parts, chunk_word_segments,
           chunk_exc, word_index, current_segment, final_segments,
           active_speaker, run_no, prev_result, windows, engine_calls,
           cache_reads, stage_log, args, rival_args, cache_paths,
           last_asr_chunk_result, engine_failed, caches_at_start,
           sealed_texts >>

---------------------------------------------------------------------------
(* Bounds of the model *)

MaxRuns == 2
MaxWords == 3

(* Program constants *)

MS_PER_S == 1000
MERGE_GAP_MS == 1000
MIN_WORD_MS == 100

UNKNOWN_SPEAKER == "UNKNOWN_SPEAKER"

---------------------------------------------------------------------------
(* Python values.  Every value has the same record shape so that any two   *)
(* can be compared.                                                        *)

PyObj(type, tracks, has_chunks, chunks_is_list, chunks, text) ==
    [type |-> type, tracks |-> tracks, has_chunks |-> has_chunks,
     chunks_is_list |-> chunks_is_list, chunks |-> chunks, text |-> text]

None == PyObj("NoneType", << >>, FALSE, FALSE, << >>, << >>)

\* a pyannote Annotation: its tracks in itertracks order,
\* each [start, end, label]
Annotation(tracks) == PyObj("Annotation", tracks, FALSE, FALSE, << >>, << >>)

\* {"chunks": chunks, "text": text}
AsrDict(chunks, text) == PyObj("dict", << >>, TRUE, TRUE, chunks, text)

\* {"text": text}: a dict without the word-list field
AsrDictNoChunks(text) == PyObj("dict", << >>, FALSE, FALSE, << >>, text)

\* {"chunks": None, "text": text}: the word-list field is not a list
AsrDictChunksNotList(text) == PyObj("dict", << >>, TRUE, FALSE, << >>, text)

\* some other picklable object (a list)
OtherObj == PyObj("list", << >>, FALSE, FALSE, << >>, << >>)

Track(start, end, label) == [start |-> start, end |-> end, label |-> label]

\* a word token {"text": text, "timestamp": (start, end)}
Word(text, start, end) ==
    [text |-> text, timestamp |-> [form |-> "pair", start |-> start, end |-> end]]

\* {"text": text, "timestamp": None} or no timestamp key
WordNoTimestamp(text) ==
    [text |-> text, timestamp |-> [form |-> "none", start |-> 0, end |-> 0]]

\* {"text": text, "timestamp": (start, None)}
WordEndNone(text, start) ==
    [text |-> text, timestamp |-> [form |-> "end_none", start |-> start, end |-> 0]]

\* {"text": text, "timestamp": t} where t is a non-empty tuple whose length
\* is not 2
WordTimestampNotPair(text) ==
    [text |-> text, timestamp |-> [form |-> "not_pair", start |-> 0, end |-> 0]]

Segment(speaker, text, start_time, end_time) ==
    [speaker |-> speaker, text |-> text,
     start_time |-> start_time, end_time |-> end_time]

\* current_segment = None
NoSegment == Segment("", << >>, -1, -1)

---------------------------------------------------------------------------
(* Files.  A file records who wrote it (the pipeline, or something         *)
(* earlier); no operation of the pipeline reads that field.                *)

Absent == [state |-> "absent", obj |-> None, writer |-> "nobody"]

\* bytes that pickle.load cannot deserialize
Garbage == [state |-> "garbage", obj |-> None, writer |-> "nobody"]

\* a pickle of obj found in the output directory before the first run
Stored(obj) == [state |-> "pickle", obj |-> obj, writer |-> "earlier"]

\* a dump that writes a pickle of something other than obj
pickle_dump_wrong_object(obj) ==
    [state |-> "pickle", obj |-> OtherObj, writer |-> "pipeline"]

\* open(path, 'wb') + pickle.dump(obj, f): the file holds obj's pickle
pickle_dump(obj) == [state |-> "pickle", obj |-> obj, writer |-> "pipeline"]

\* Path.exists()
exists(file) == file.state # "absent"

\* pickle.load raises on bytes that are no pickle
pickle_load_raises(file) == file.state # "pickle"

\* pickle.load(f): the object the pickle was made from
pickle_load(file) == file.obj

---------------------------------------------------------------------------
(* Text helpers *)

IsSpace(c) == c = " "

RECURSIVE lstrip(_)
lstrip(s) ==
    IF s = << >> THEN << >>
    ELSE IF IsSpace(Head(s)) THEN lstrip(Tail(s)) ELSE s

RECURSIVE rstrip(_)
rstrip(s) ==
    IF s = << >> THEN << >>
    ELSE IF IsSpace(s[Len(s)]) THEN rstrip(SubSeq(s, 1, Len(s) - 1)) ELSE s

\* str.strip()
strip(s) == rstrip(lstrip(s))

\* " ".join(parts)
RECURSIVE join(_)
join(parts) ==
    IF parts = << >> THEN << >>
    ELSE IF Len(parts) = 1 THEN parts[1]
    ELSE parts[1] \o << " " >> \o join(Tail(parts))

---------------------------------------------------------------------------
(* _perform_asr_on_chunk: the words of one engine result, shifted to       *)
(* global time.  Words without a (number, number) timestamp are skipped.   *)

\* iterating asr_chunk_result["chunks"] raises when it is not a list
\* iterating a word list that is not a list raises, and so does unpacking
\* into (start_orig, end_orig) a timestamp that is not a pair
asr_on_chunk_raises(asr_chunk_result) ==
    /\ asr_chunk_result.type = "dict"
    /\ asr_chunk_result.has_chunks
    /\ \/ ~asr_chunk_result.chunks_is_list
       \/ \E i \in 1..Len(asr_chunk_result.chunks) :
              asr_chunk_result.chunks[i].timestamp.form = "not_pair"

RECURSIVE adjust_words(_, _)
adjust_words(chunks, chunk_offset_ms) ==
    IF chunks = << >> THEN << >>
    ELSE LET word_segment == Head(chunks)
             rest == adjust_words(Tail(chunks), chunk_offset_ms)
         IN  IF word_segment.timestamp.form = "pair"
             THEN << Word(word_segment.text,
                          word_segment.timestamp.start + chunk_offset_ms,
                          word_segment.timestamp.end + chunk_offset_ms) >> \o rest
             ELSE rest

_perform_asr_on_chunk(asr_chunk_result, chunk_offset_ms) ==
    IF asr_chunk_result.type = "dict" /\ asr_chunk_result.has_chunks
    THEN adjust_words(asr_chunk_result.chunks, chunk_offset_ms)
    ELSE << >>

---------------------------------------------------------------------------
(* Batched ASR: chunk windows, overlap filter, stitching *)

chunk_duration_ms == config.asr_processing_chunk_duration_s * MS_PER_S
overlap_ms == config.asr_processing_chunk_overlap_s * MS_PER_S
step_ms == chunk_duration_ms - overlap_ms

Min(a, b) == IF a <= b THEN a ELSE b

\* a window that is not clipped to the duration
i_end_ms_unclipped(start_ms) == start_ms + chunk_duration_ms

\* i_end_ms of the window that starts at start_ms
i_end_ms(start_ms) == Min(start_ms + chunk_duration_ms, audio.duration_ms)

\* effective_chunk_start_s, in ms: the chunk's offset, moved to the middle
\* of the overlap when words have already been collected
effective_chunk_start_ms(all_segs, chunk_offset_ms) ==
    IF all_segs # << >>
    THEN chunk_offset_ms + overlap_ms \div 2
    ELSE chunk_offset_ms

\* the for loop over chunk_word_segments that appends to all_word_segments
RECURSIVE accept_words(_, _, _)
accept_words(all_segs, segs, effective_start_ms) ==
    IF segs = << >> THEN all_segs
    ELSE LET seg == Head(segs)
         IN  IF all_segs = << >> \/ seg.timestamp.start >= effective_start_ms
             THEN accept_words(Append(all_segs, seg), Tail(segs), effective_start_ms)
             ELSE accept_words(all_segs, Tail(segs), effective_start_ms)

\* chunk_text: " ".join of the non-empty word texts, stripped
RECURSIVE texts_of(_)
texts_of(segs) ==
    IF segs = << >> THEN << >>
    ELSE IF Head(segs).text # << >>
         THEN << Head(segs).text >> \o texts_of(Tail(segs))
         ELSE texts_of(Tail(segs))

chunk_text(segs) == strip(join(texts_of(segs)))

\* sorted(..., key=lambda x: x['timestamp'][0]): a stable sort by start
RECURSIVE insert_sorted(_, _)
insert_sorted(sorted_segs, seg) ==
    IF sorted_segs = << >> THEN << seg >>
    ELSE IF Head(sorted_segs).timestamp.start <= seg.timestamp.start
         THEN << Head(sorted_segs) >> \o insert_sorted(Tail(sorted_segs), seg)
         ELSE << seg >> \o sorted_segs

RECURSIVE sorted_by_start(_)
sorted_by_start(segs) ==
    IF segs = << >> THEN << >>
    ELSE insert_sorted(sorted_by_start(SubSeq(segs, 1, Len(segs) - 1)),
                       segs[Len(segs)])

dedup_key(seg) == << seg.timestamp.start, seg.timestamp.end, seg.text >>

\* the deduplication loop: keep a word unless its key was seen
RECURSIVE unique_segments(_, _)
unique_segments(segs, seen_timestamps_texts) ==
    IF segs = << >> THEN << >>
    ELSE LET seg == Head(segs)
         IN  IF dedup_key(seg) \notin seen_timestamps_texts
             THEN << seg >> \o unique_segments(Tail(segs),
                                   seen_timestamps_texts \cup { dedup_key(seg) })
             ELSE unique_segments(Tail(segs), seen_timestamps_texts)

\* the sort without the deduplication loop
stitch_without_dedup(all_segs) == sorted_by_start(all_segs)

\* the deduplication loop over the words in accumulation order, unsorted
stitch_without_sort(all_segs) == unique_segments(all_segs, { })

stitch(all_segs) == unique_segments(sorted_by_start(all_segs), { })

---------------------------------------------------------------------------
(* _get_speaker_for_word and the merge of _combine_results *)

\* a lookup that also matches a timestamp equal to a track's end
RECURSIVE speaker_closed_interval(_, _)
speaker_closed_interval(tracks, twice_mid) ==
    IF tracks = << >> THEN UNKNOWN_SPEAKER
    ELSE IF 2 * Head(tracks).start <= twice_mid /\ twice_mid <= 2 * Head(tracks).end
         THEN Head(tracks).label
         ELSE speaker_closed_interval(Tail(tracks), twice_mid)

\* the first track, in itertracks order, with start <= t < end;
\* twice_mid is twice the timestamp t
RECURSIVE _get_speaker_for_word(_, _)
_get_speaker_for_word(tracks, twice_mid) ==
    IF tracks = << >> THEN UNKNOWN_SPEAKER
    ELSE IF 2 * Head(tracks).start <= twice_mid /\ twice_mid < 2 * Head(tracks).end
         THEN Head(tracks).label
         ELSE _get_speaker_for_word(Tail(tracks), twice_mid)

\* the word is skipped by the timestamp checks of the loop body
word_skipped(word_info) == word_info.timestamp.form # "pair"

word_start_of(word_info) == word_info.timestamp.start

\* word_end, after the end <= start adjustment
word_end_of(word_info) ==
    IF word_info.timestamp.end <= word_info.timestamp.start
    THEN word_info.timestamp.start + MIN_WORD_MS
    ELSE word_info.timestamp.end

\* twice word_mid_time = 2 * (word_start + (word_end - word_start) / 2.0)
twice_word_mid_time(word_info) ==
    2 * word_start_of(word_info) + (word_end_of(word_info) - word_start_of(word_info))

\* a merge condition that also merges across a gap of exactly 1.0 s
merges_gap_inclusive(cur, speaker, word_start) ==
    /\ cur.speaker = speaker
    /\ word_start - cur.end_time <= MERGE_GAP_MS

\* the elif condition: same speaker and a gap below 1.0 s
merges(cur, speaker, word_start) ==
    /\ cur.speaker = speaker
    /\ word_start - cur.end_time < MERGE_GAP_MS

\* a merge that replaces the segment's text by the word's
next_current_text_replaced(cur, speaker, word_info) ==
    IF cur # NoSegment /\ merges(cur, speaker, word_start_of(word_info))
    THEN [cur EXCEPT !.text = word_info.text,
                     !.end_time = word_end_of(word_info)]
    ELSE Segment(speaker, word_info.text,
                 word_start_of(word_info), word_end_of(word_info))

\* current_segment after one valid word
next_current(cur, speaker, word_info) ==
    IF cur # NoSegment /\ merges(cur, speaker, word_start_of(word_info))
    THEN [cur EXCEPT !.text = cur.text \o word_info.text,
                     !.end_time = word_end_of(word_info)]
    ELSE Segment(speaker, word_info.text,
                 word_start_of(word_info), word_end_of(word_info))

\* the segment appended when current_segment is sealed: its text stripped,
\* and nothing when the stripped text is empty
sealed(cur) ==
    IF strip(cur.text) # << >>
    THEN << [cur EXCEPT !.text = strip(cur.text)] >>
    ELSE << >>

\* final_segments after one valid word
next_final(final, cur, speaker, word_info) ==
    IF cur = NoSegment \/ merges(cur, speaker, word_start_of(word_info))
    THEN final
    ELSE final \o sealed(cur)

\* the append after the loop: current_segment as it is (not stripped)
\* when its stripped text is non-empty
final_append(final, cur) ==
    IF cur # NoSegment /\ strip(cur.text) # << >>
    THEN Append(final, cur)
    ELSE final

---------------------------------------------------------------------------
(* Outcomes of the collaborators: an engine call raises or returns a       *)
(* value; a cache write succeeds, fails at open() (file untouched) or      *)
(* fails in pickle.dump (file truncated by open(..., 'wb')).               *)

Raises == [raises |-> TRUE, value |-> None]
Gives(value) == [raises |-> FALSE, value |-> value]

WriteOutcomes == { "ok", "open_error", "dump_error" }

\* the cache file after open(cache_path, 'wb') + pickle.dump(obj, f)
written_file(file, obj, written) ==
    CASE written = "ok" -> pickle_dump(obj)
      [] written = "open_error" -> file
      [] written = "dump_error" -> Garbage

\* values of run_result
Running == [kind |-> "running", segments |-> << >>]
ReturnedNone == [kind |-> "None", segments |-> << >>]
Returned(segments) == [kind |-> "list", segments |-> segments]
Escaped == [kind |-> "exception", segments |-> << >>]

NoTranscript == [written |-> FALSE, lines |-> << >>]

\* the line written for the empty segment list
NO_SEGMENTS_LINE ==
    Segment("", << "No speech segments identified or combined." >>, 0, 0)

\* the lines _save_transcript writes: one per segment whose stripped text
\* is non-empty (speaker, times and stripped text; the two-decimal
\* formatting of the times is not modelled)
RECURSIVE transcript_lines(_)
transcript_lines(segments) ==
    IF segments = << >> THEN << >>
    ELSE IF strip(Head(segments).text) # << >>
         THEN << [Head(segments) EXCEPT !.text = strip(Head(segments).text)] >>
              \o transcript_lines(Tail(segments))
         ELSE transcript_lines(Tail(segments))

\* a save that writes no line for the empty segment list
save_transcript_without_placeholder(segments, saved) ==
    IF ~saved THEN transcript
    ELSE [written |-> TRUE, lines |-> transcript_lines(segments)]

\* the transcript file after _save_transcript(segments); an IOError is
\* caught inside and leaves the file as it was
_save_transcript(segments, saved) ==
    IF ~saved THEN transcript
    ELSE IF segments = << >>
         THEN [written |-> TRUE, lines |-> << NO_SEGMENTS_LINE >>]
         ELSE [written |-> TRUE, lines |-> transcript_lines(segments)]

---------------------------------------------------------------------------
(* The state after DiarizationConfig and SpeechDiarizationPipeline are     *)
(* constructed, before run()                                               *)

NoCalls == [diarization |-> 0, asr |-> 0]
NoFailures == [diarization |-> FALSE, asr |-> FALSE]

(* DiarizationConfig: constructor arguments and cache file paths.  A name  *)
(* or path is a sequence of tokens: single characters, and the fixed       *)
(* suffixes as one token each.                                             *)

\* enable_asr_batching is "None", "True" or "False"
Args(stem, diarization_model, asr_model, enable_asr_batching, min_length_s) ==
    [stem |-> stem,
     diarization_model |-> diarization_model,
     asr_model |-> asr_model,
     enable_asr_batching |-> enable_asr_batching,
     min_audio_length_for_batching_s |-> min_length_s]

DefaultArgs ==
    Args(<< "t" >>, << "p", "/", "d" >>, << "r", "/", "w" >>, "None", 2)

\* str.replace('/', '_')
RECURSIVE slug(_)
slug(name) ==
    IF name = << >> THEN << >>
    ELSE << IF Head(name) = "/" THEN "_" ELSE Head(name) >> \o slug(Tail(name))

\* output_dir / f"{stem}.diarization.pkl" (the directory is the same for
\* every configuration here and is left out)
diarization_cache_path(a) == a.stem \o << ".diarization.pkl" >>

\* output_dir / f"{stem}_{slug}.asr_batched.pkl" or f"{stem}_{slug}.asr.pkl"
asr_cache_file_path(a, batching) ==
    a.stem \o << "_" >> \o slug(a.asr_model)
           \o << IF batching THEN ".asr_batched.pkl" ELSE ".asr.pkl" >>

NoPaths == [diarization |-> << >>, asr |-> << >>,
            rival_diarization |-> << >>, rival_asr |-> << >>]

ResolvedPaths(a, batching, rival, rival_batching) ==
    [diarization |-> diarization_cache_path(a),
     asr |-> asr_cache_file_path(a, batching),
     rival_diarization |-> diarization_cache_path(rival),
     rival_asr |-> asr_cache_file_path(rival, rival_batching)]

\* nothing has run yet
InitLocals ==
    /\ transcript = NoTranscript
    /\ temp_chunk_files = 0
    /\ run_result = Running
    /\ diarization_result = None
    /\ asr_result = None
    /\ i_start_ms = 0
    /\ all_word_segments = << >>
    /\ full_text_parts = << >>
    /\ chunk_word_segments = << >>
    /\ last_asr_chunk_result = None
    /\ chunk_exc = FALSE
    /\ word_index = 0
    /\ current_segment = NoSegment
    /\ final_segments = << >>
    /\ sealed_texts = << >>
    /\ active_speaker = ""
    /\ run_no = 1
    /\ prev_result = Running
    /\ windows = << >>
    /\ engine_calls = NoCalls
    /\ engine_failed = NoFailures
    /\ cache_reads = NoCalls
    /\ stage_log = << >>

\* the two cache files as they are
caches_now == [diarization |-> diarization_cache, asr |-> asr_cache]

\* Inputs: pairs << config, audio >>; the configuration was constructed
\* with the default model names
InitWith(Inputs, DiarizationCaches, AsrCaches) ==
    /\ \E input \in Inputs : config = input[1] /\ audio = input[2]
    /\ diarization_cache \in DiarizationCaches
    /\ asr_cache \in AsrCaches
    /\ pc = "run"
    /\ args = DefaultArgs
    /\ rival_args = DefaultArgs
    /\ cache_paths = ResolvedPaths(DefaultArgs, config.enable_asr_batching,
                                   DefaultArgs, config.enable_asr_batching)
    /\ caches_at_start = caches_now
    /\ InitLocals

env == << config, audio, args, rival_args >>
asr_locals == << i_start_ms, all_word_segments, full_text_parts,
                 chunk_word_segments, chunk_exc, windows, last_asr_chunk_result >>
combine_locals == << word_index, current_segment, final_segments,
                     active_speaker, sealed_texts >>
runs == << run_no, prev_result, cache_paths, caches_at_start >>

---------------------------------------------------------------------------
(* run(): the input file check *)

RunStart ==
    /\ pc = "run"
    /\ IF ~audio.is_file
       THEN /\ pc' = "done"
            /\ run_result' = ReturnedNone
       ELSE /\ pc' = "diarization"
            /\ run_result' = run_result
    /\ UNCHANGED << env, diarization_cache, asr_cache, transcript,
                    temp_chunk_files, diarization_result, asr_result,
                    asr_locals, combine_locals, runs, engine_calls,
                    engine_failed, cache_reads, stage_log >>

---------------------------------------------------------------------------
(* _perform_diarization, and run()'s check of its result *)

\* a lookup that ignores force_recompute_diarization
diarization_cache_opened_despite_force == exists(diarization_cache)

\* the cache file is opened for reading
diarization_cache_opened ==
    ~config.force_recompute_diarization /\ exists(diarization_cache)

\* a lookup that never finds the cached annotation
diarization_cache_never_hit == FALSE

\* the cached value is returned
diarization_cache_hit ==
    /\ diarization_cache_opened
    /\ ~pickle_load_raises(diarization_cache)
    /\ pickle_load(diarization_cache).type = "Annotation"

PerformDiarization(EngineOutcomes) ==
    /\ pc = "diarization"
    /\ stage_log' = Append(stage_log, "diarization")
    /\ cache_reads' = [cache_reads EXCEPT !.diarization =
                          IF diarization_cache_opened THEN @ + 1 ELSE @]
    /\ IF diarization_cache_hit
       THEN /\ diarization_result' = pickle_load(diarization_cache)
            /\ pc' = "asr"
            /\ UNCHANGED << diarization_cache, engine_calls, engine_failed,
                            run_result >>
       ELSE \E outcome \in EngineOutcomes, written \in WriteOutcomes :
            /\ engine_calls' = [engine_calls EXCEPT !.diarization = @ + 1]
            /\ engine_failed' =
                  [engine_failed EXCEPT !.diarization = @ \/ outcome.raises]
            /\ IF outcome.raises
               THEN /\ diarization_cache' = diarization_cache
                    /\ diarization_result' = None
               ELSE /\ diarization_cache' =
                           written_file(diarization_cache, outcome.value, written)
                    /\ diarization_result' =
                           IF written = "ok" THEN outcome.value ELSE None
            /\ IF diarization_result' = None
               THEN pc' = "done" /\ run_result' = ReturnedNone
               ELSE pc' = "asr" /\ run_result' = run_result
    /\ UNCHANGED << env, asr_cache, transcript, temp_chunk_files, asr_result,
                    asr_locals, combine_locals, runs >>

---------------------------------------------------------------------------
(* _perform_asr: the cache lookup *)

asr_cache_opened == ~config.force_recompute_asr /\ exists(asr_cache)

\* a lookup that never finds the cached result
asr_cache_never_hit == FALSE

asr_cache_hit ==
    /\ asr_cache_opened
    /\ ~pickle_load_raises(asr_cache)
    /\ pickle_load(asr_cache).type = "dict"
    /\ pickle_load(asr_cache).has_chunks

AsrCacheLookup ==
    /\ pc = "asr"
    /\ stage_log' = Append(stage_log, "asr")
    /\ cache_reads' = [cache_reads EXCEPT !.asr =
                          IF asr_cache_opened THEN @ + 1 ELSE @]
    /\ IF asr_cache_hit
       THEN /\ asr_result' = pickle_load(asr_cache)
            /\ pc' = "after_asr"
       ELSE /\ asr_result' = asr_result
            /\ pc' = "asr_compute"
    /\ UNCHANGED << env, diarization_cache, asr_cache, transcript,
                    temp_chunk_files, run_result, diarization_result,
                    asr_locals, combine_locals, runs, engine_calls,
                    engine_failed >>

(* _perform_asr without batching: one engine call on the whole file, the   *)
(* check of the result and the cache write (outside any try)               *)

\* a check that lets a result without 'chunks' through
asr_result_any_dict(result) == result # None

\* the result has the word-list field
asr_result_valid(result) == result # None /\ result.has_chunks

AsrSingleShot(EngineOutcomes) ==
    /\ pc = "asr_compute"
    /\ ~config.enable_asr_batching
    /\ \E outcome \in EngineOutcomes, written \in WriteOutcomes :
       /\ engine_calls' = [engine_calls EXCEPT !.asr = @ + 1]
       /\ engine_failed' =
             [engine_failed EXCEPT !.asr = @ \/ outcome.raises]
       /\ IF outcome.raises \/ ~asr_result_valid(outcome.value)
          THEN /\ asr_result' = None
               /\ pc' = "after_asr"
               /\ UNCHANGED << asr_cache, run_result >>
          ELSE /\ asr_cache' = written_file(asr_cache, outcome.value, written)
               /\ IF written = "ok"
                  THEN /\ asr_result' = outcome.value
                       /\ pc' = "after_asr"
                       /\ run_result' = run_result
                  ELSE /\ asr_result' = None
                       /\ pc' = "done"
                       /\ run_result' = Escaped
    /\ UNCHANGED << env, diarization_cache, transcript, temp_chunk_files,
                    diarization_result, asr_locals, combine_locals, runs,
                    cache_reads, stage_log >>

---------------------------------------------------------------------------
(* _perform_asr with batching *)

\* loading the audio and computing the step; range() raises on a zero step
AsrBatchedLoad(DecodeOutcomes) ==
    /\ pc = "asr_compute"
    /\ config.enable_asr_batching
    /\ \E decoded \in DecodeOutcomes :
       IF ~decoded \/ step_ms = 0
       THEN /\ asr_result' = None
            /\ pc' = "after_asr"
       ELSE /\ asr_result' = asr_result
            /\ pc' = "chunk_loop"
    /\ i_start_ms' = 0
    /\ all_word_segments' = << >>
    /\ full_text_parts' = << >>
    /\ UNCHANGED << env, diarization_cache, asr_cache, transcript,
                    temp_chunk_files, run_result, diarization_result,
                    chunk_word_segments, chunk_exc, windows, combine_locals,
                    runs, engine_calls, engine_failed, cache_reads, stage_log,
                    last_asr_chunk_result >>

\* range(0, duration_ms, step_ms) yields i_start_ms
range_has(start_ms) ==
    IF step_ms > 0 THEN start_ms < audio.duration_ms
    ELSE start_ms > audio.duration_ms

\* the head of one loop iteration: the window and its temporary file
ChunkLoopHead ==
    /\ pc = "chunk_loop"
    /\ IF range_has(i_start_ms)
       THEN /\ windows' = Append(windows, << i_start_ms, i_end_ms(i_start_ms) >>)
            /\ temp_chunk_files' = temp_chunk_files + 1
            /\ pc' = "chunk_body"
       ELSE /\ windows' = windows
            /\ temp_chunk_files' = temp_chunk_files
            /\ pc' = "asr_stitch"
    /\ UNCHANGED << env, diarization_cache, asr_cache, transcript, run_result,
                    diarization_result, asr_result, i_start_ms,
                    all_word_segments, full_text_parts, chunk_word_segments,
                    chunk_exc, combine_locals, runs, engine_calls,
                    engine_failed, cache_reads, stage_log,
                    last_asr_chunk_result >>

\* the try body: export, the engine call on the chunk, the overlap filter
ChunkBody(ExportOutcomes, EngineOutcomes) ==
    /\ pc = "chunk_body"
    /\ \E exported \in ExportOutcomes, outcome \in EngineOutcomes :
       IF ~exported
       THEN /\ chunk_exc' = TRUE
            /\ last_asr_chunk_result' = None
            /\ UNCHANGED << engine_calls, engine_failed, chunk_word_segments,
                            full_text_parts, all_word_segments >>
       ELSE /\ engine_calls' = [engine_calls EXCEPT !.asr = @ + 1]
            /\ engine_failed' =
                  [engine_failed EXCEPT !.asr = @ \/ outcome.raises]
            /\ last_asr_chunk_result' = outcome.value
            /\ IF outcome.raises \/ asr_on_chunk_raises(outcome.value)
               THEN /\ chunk_exc' = TRUE
                    /\ UNCHANGED << chunk_word_segments, full_text_parts,
                                    all_word_segments >>
               ELSE /\ chunk_exc' = FALSE
                    /\ chunk_word_segments' =
                           _perform_asr_on_chunk(outcome.value, i_start_ms)
                    /\ full_text_parts' =
                           IF chunk_text(chunk_word_segments') # << >>
                           THEN Append(full_text_parts,
                                       chunk_text(chunk_word_segments'))
                           ELSE full_text_parts
                    /\ all_word_segments' =
                           accept_words(all_word_segments, chunk_word_segments',
                               effective_chunk_start_ms(all_word_segments,
                                                        i_start_ms))
    /\ pc' = "chunk_finally"
    /\ UNCHANGED << env, diarization_cache, asr_cache, transcript,
                    temp_chunk_files, run_result, diarization_result,
                    asr_result, i_start_ms, windows, combine_locals, runs,
                    cache_reads, stage_log >>

\* a cleanup at the end of the try body instead of in a finally clause
after_try_body_only(files, exc) == IF exc THEN files ELSE files - 1

\* temporary files left by the finally clause: temp_chunk_path exists (it
\* was created at the loop head) and is unlinked, exception or not
after_finally(files, exc) == files - 1

\* an inner except clause that swallows the chunk's exception
swallowed(exc) == FALSE

\* the inner try has no except clause: an exception of the try body leaves
\* the loop and reaches the outer except clauses
propagates(exc) == exc

\* the finally clause, then the propagating exception (caught by the outer
\* except: _perform_asr returns None) or the break test and the next start
ChunkFinally ==
    /\ pc = "chunk_finally"
    /\ temp_chunk_files' = after_finally(temp_chunk_files, chunk_exc)
    /\ chunk_exc' = FALSE
    /\ IF propagates(chunk_exc)
       THEN /\ asr_result' = None
            /\ pc' = "after_asr"
            /\ i_start_ms' = i_start_ms
       ELSE IF i_end_ms(i_start_ms) = audio.duration_ms
       THEN /\ asr_result' = asr_result
            /\ pc' = "asr_stitch"
            /\ i_start_ms' = i_start_ms
       ELSE /\ asr_result' = asr_result
            /\ pc' = "chunk_loop"
            /\ i_start_ms' = i_start_ms + step_ms
    /\ UNCHANGED << env, diarization_cache, asr_cache, transcript, run_result,
                    diarization_result, all_word_segments, full_text_parts,
                    chunk_word_segments, windows, combine_locals, runs,
                    engine_calls, engine_failed, cache_reads, stage_log,
                    last_asr_chunk_result >>

\* the result built after the loop: the stitched words and the joined text
batched_asr_result ==
    AsrDict(stitch(all_word_segments), join(full_text_parts))

\* after the loop: sort, deduplicate, build the result, write the cache.
\* The code rebinds all_word_segments to the stitched list only to build
\* the result from it; here the variable keeps the accumulated list and the
\* stitched list is the result's word list.
AsrStitch ==
    /\ pc = "asr_stitch"
    /\ \E written \in WriteOutcomes :
       /\ asr_cache' = written_file(asr_cache, batched_asr_result, written)
       /\ IF written = "ok"
          THEN /\ asr_result' = batched_asr_result
               /\ pc' = "after_asr"
               /\ run_result' = run_result
          ELSE /\ asr_result' = None
               /\ pc' = "done"
               /\ run_result' = Escaped
    /\ UNCHANGED << env, diarization_cache, transcript, temp_chunk_files,
                    diarization_result, asr_locals, combine_locals,
                    runs, engine_calls, engine_failed, cache_reads, stage_log >>

---------------------------------------------------------------------------
(* run(): the checks of the ASR result *)

\* a check that lets a missing ASR result through
asr_failure_unchecked(result) == FALSE

\* run() aborts: _perform_asr returned None, or 'chunks' is not a list
asr_failed(result) == result = None \/ ~result.chunks_is_list

RunAfterAsr(SaveOutcomes) ==
    /\ pc = "after_asr"
    /\ IF asr_failed(asr_result)
       THEN /\ pc' = "done"
            /\ run_result' = ReturnedNone
            /\ transcript' = transcript
       ELSE IF asr_result.chunks = << >> /\ asr_result.text = << >>
       THEN /\ pc' = "done"
            /\ run_result' = Returned(<< >>)
            /\ \E saved \in SaveOutcomes :
                  transcript' = _save_transcript(<< >>, saved)
       ELSE /\ pc' = "combine"
            /\ run_result' = run_result
            /\ transcript' = transcript
    /\ stage_log' = IF pc' = "done" /\ run_result'.kind = "list"
                    THEN Append(stage_log, "save_transcript")
                    ELSE stage_log
    /\ UNCHANGED << env, diarization_cache, asr_cache, temp_chunk_files,
                    diarization_result, asr_result, asr_locals,
                    combine_locals, runs, engine_calls, engine_failed,
                    cache_reads >>

---------------------------------------------------------------------------
(* _combine_results *)

CombineBegin ==
    /\ pc = "combine"
    /\ stage_log' = Append(stage_log, "combine")
    /\ final_segments' = << >>
    /\ sealed_texts' = << >>
    /\ current_segment' = NoSegment
    /\ word_index' = 0
    /\ active_speaker' = ""
    /\ pc' = IF asr_result.chunks = << >> THEN "save" ELSE "combine_loop"
    /\ UNCHANGED << env, diarization_cache, asr_cache, transcript,
                    temp_chunk_files, run_result, diarization_result,
                    asr_result, asr_locals, runs, engine_calls, engine_failed,
                    cache_reads >>

\* one iteration of the loop over word_chunks
CombineWord ==
    /\ pc = "combine_loop"
    /\ word_index < Len(asr_result.chunks)
    /\ LET word_info == asr_result.chunks[word_index + 1]
           speaker == _get_speaker_for_word(diarization_result.tracks,
                                            twice_word_mid_time(word_info))
       IN  IF word_skipped(word_info)
           THEN UNCHANGED << active_speaker, current_segment, final_segments,
                             sealed_texts >>
           ELSE /\ active_speaker' = speaker
                /\ current_segment' =
                       next_current(current_segment, speaker, word_info)
                /\ final_segments' =
                       next_final(final_segments, current_segment, speaker,
                                  word_info)
                /\ sealed_texts' =
                       IF current_segment = NoSegment
                          \/ merges(current_segment, speaker,
                                    word_start_of(word_info))
                       THEN sealed_texts
                       ELSE Append(sealed_texts, current_segment.text)
    /\ word_index' = word_index + 1
    /\ UNCHANGED << env, diarization_cache, asr_cache, transcript,
                    temp_chunk_files, pc, run_result, diarization_result,
                    asr_result, asr_locals, runs, engine_calls, engine_failed,
                    cache_reads, stage_log >>

\* after the loop
CombineEnd ==
    /\ pc = "combine_loop"
    /\ word_index = Len(asr_result.chunks)
    /\ final_segments' = final_append(final_segments, current_segment)
    /\ sealed_texts' = IF current_segment # NoSegment
                       THEN Append(sealed_texts, current_segment.text)
                       ELSE sealed_texts
    /\ pc' = "save"
    /\ UNCHANGED << env, diarization_cache, asr_cache, transcript,
                    temp_chunk_files, run_result, diarization_result,
                    asr_result, asr_locals, word_index, current_segment,
                    active_speaker, runs, engine_calls, engine_failed,
                    cache_reads, stage_log >>

---------------------------------------------------------------------------
(* run(): the transcript is saved and the segments are returned *)

RunFinish(SaveOutcomes) ==
    /\ pc = "save"
    /\ stage_log' = Append(stage_log, "save_transcript")
    /\ \E saved \in SaveOutcomes :
          transcript' = _save_transcript(final_segments, saved)
    /\ run_result' = Returned(final_segments)
    /\ pc' = "done"
    /\ UNCHANGED << env, diarization_cache, asr_cache, temp_chunk_files,
                    diarization_result, asr_result, asr_locals,
                    combine_locals, runs, engine_calls, engine_failed,
                    cache_reads >>

(* a new pipeline is constructed with the same configuration over the same *)
(* output directory, and run() is called again                             *)

NewRun ==
    /\ pc = "done"
    /\ run_no < MaxRuns
    /\ run_no' = run_no + 1
    /\ prev_result' = run_result
    /\ pc' = "run"
    /\ run_result' = Running
    /\ diarization_result' = None
    /\ asr_result' = None
    /\ i_start_ms' = 0
    /\ all_word_segments' = << >>
    /\ full_text_parts' = << >>
    /\ chunk_word_segments' = << >>
    /\ last_asr_chunk_result' = None
    /\ chunk_exc' = FALSE
    /\ word_index' = 0
    /\ current_segment' = NoSegment
    /\ final_segments' = << >>
    /\ sealed_texts' = << >>
    /\ active_speaker' = ""
    /\ windows' = << >>
    /\ engine_calls' = NoCalls
    /\ engine_failed' = NoFailures
    /\ caches_at_start' = caches_now
    /\ cache_reads' = NoCalls
    /\ stage_log' = << >>
    /\ UNCHANGED << env, diarization_cache, asr_cache, transcript,
                    temp_chunk_files, cache_paths >>

---------------------------------------------------------------------------
(* Inputs of the pipeline specification *)

Config(force_diarization, force_asr, batching, chunk_s, overlap_s) ==
    [force_recompute_diarization |-> force_diarization,
     force_recompute_asr |-> force_asr,
     enable_asr_batching |-> batching,
     asr_processing_chunk_duration_s |-> chunk_s,
     asr_processing_chunk_overlap_s |-> overlap_s]

\* info_readable: soundfile can read the file's duration
Audio(is_file, duration_ms) ==
    [is_file |-> is_file, duration_ms |-> duration_ms, info_readable |-> is_file]

T_a == << " ", "a" >>
T_b == << " ", "b" >>
T_space == << " " >>

Timeline1 == << Track(0, 1000, "SPEAKER_00"), Track(800, 3000, "SPEAKER_01") >>
Timeline2 == << Track(0, 3000, "SPEAKER_00") >>

Words1 == << Word(T_a, 0, 400), Word(T_b, 1200, 1500) >>
Words2 == << Word(T_b, 300, 300) >>
Words3 == << WordNoTimestamp(T_a), Word(T_a, 0, 400), WordTimestampNotPair(T_b) >>

PipelineConfigs ==
    { Config(fd, fa, b, 2, 1) : fd \in BOOLEAN, fa \in BOOLEAN, b \in BOOLEAN }

PipelineAudios == { Audio(f, 2500) : f \in BOOLEAN }

PipelineDiarizationCaches ==
    { Absent, Garbage, Stored(OtherObj), Stored(Annotation(Timeline2)) }

PipelineAsrCaches ==
    { Absent, Garbage, Stored(OtherObj),
      Stored(AsrDictNoChunks(T_a)),
      Stored(AsrDictChunksNotList(T_a)),
      Stored(AsrDict(Words2, T_b)) }

PipelineDiarizationOutcomes ==
    { Raises, Gives(Annotation(Timeline1)), Gives(Annotation(Timeline2)) }

PipelineAsrOutcomes ==
    { Raises, Gives(None), Gives(AsrDictNoChunks(T_a)),
      Gives(AsrDictChunksNotList(T_a)), Gives(AsrDict(<< >>, << >>)),
      Gives(AsrDict(<< >>, T_a)),
      Gives(AsrDict(Words1, T_a \o T_b)), Gives(AsrDict(Words2, T_b)),
      Gives(AsrDict(Words3, T_a \o T_a \o T_b)) }

Init ==
    InitWith(PipelineConfigs \X PipelineAudios, PipelineDiarizationCaches,
             PipelineAsrCaches)

Next ==
    \/ RunStart
    \/ PerformDiarization(PipelineDiarizationOutcomes)
    \/ AsrCacheLookup
    \/ AsrSingleShot(PipelineAsrOutcomes)
    \/ AsrBatchedLoad(BOOLEAN)
    \/ ChunkLoopHead
    \/ ChunkBody(BOOLEAN, PipelineAsrOutcomes)
    \/ ChunkFinally
    \/ AsrStitch
    \/ RunAfterAsr(BOOLEAN)
    \/ CombineBegin
    \/ CombineWord
    \/ CombineEnd
    \/ RunFinish(BOOLEAN)
    \/ NewRun

Spec == Init /\ [][Next]_vars

---------------------------------------------------------------------------
(* Chunk planning: one run with batching enabled, over many durations,     *)
(* chunk durations and overlaps.  The engine hears no words, so the run    *)
(* ends after the ASR stage.                                               *)

MaxChunkS == 3
MaxDurHalfS == 14

PlanConfigs ==
    { Config(FALSE, FALSE, TRUE, c, v) : c \in 1..MaxChunkS, v \in 0..MaxChunkS }

PlanAudios == { Audio(TRUE, k * (MS_PER_S \div 2)) : k \in 0..MaxDurHalfS }

InitPlan ==
    InitWith(PlanConfigs \X PlanAudios,
             { Stored(Annotation(Timeline2)) }, { Absent })

NextPlan ==
    \/ RunStart
    \/ PerformDiarization({ Raises })
    \/ AsrCacheLookup
    \/ AsrBatchedLoad({ TRUE })
    \/ ChunkLoopHead
    \/ ChunkBody({ TRUE }, { Gives(AsrDict(<< >>, << >>)) })
    \/ ChunkFinally
    \/ AsrStitch
    \/ RunAfterAsr({ TRUE })

SpecPlan == InitPlan /\ [][NextPlan]_vars

\* the precondition of chunk planning: 0 <= V < C and D > C
PlanPrecondition ==
    /\ 0 <= config.asr_processing_chunk_overlap_s
    /\ config.asr_processing_chunk_overlap_s < config.asr_processing_chunk_duration_s
    /\ audio.duration_ms > chunk_duration_ms

\* C1: for 0 <= V < C and D > C the windows produced so far are
\* [i*S, min(i*S + C, D)) for i = 0, 1, ... in increasing start order, each
\* later window starts at or before the end of the one before it, no window
\* ends after D, and when the loop is left the last window ends at D.
C1_ChunkPlan ==
    PlanPrecondition =>
        /\ \A i \in 1..Len(windows) :
              /\ windows[i][1] = (i - 1) * step_ms
              /\ windows[i][2] = IF (i - 1) * step_ms + chunk_duration_ms
                                        <= audio.duration_ms
                                 THEN (i - 1) * step_ms + chunk_duration_ms
                                 ELSE audio.duration_ms
              /\ windows[i][2] <= audio.duration_ms
              /\ i > 1 => /\ windows[i][1] <= windows[i - 1][2]
                          /\ windows[i][1] > windows[i - 1][1]
        /\ pc = "asr_stitch" =>
              /\ windows # << >>
              /\ windows[1][1] = 0
              /\ windows[Len(windows)][2] = audio.duration_ms

\* the loop is left after three or more windows, the last one clipped,
\* with a positive overlap
C1_Witness ==
    /\ PlanPrecondition
    /\ pc = "asr_stitch"
    /\ Len(windows) >= 3
    /\ config.asr_processing_chunk_overlap_s > 0
    /\ windows[Len(windows)][2] - windows[Len(windows)][1] < chunk_duration_ms

---------------------------------------------------------------------------
(* Stitching: one run with batching enabled and an empty ASR cache, the    *)
(* engine hearing words in each chunk (in chunk-local time)                *)

StitchWords1 == << Word(T_a, 300, 600), Word(T_a, 1500, 1800) >>
StitchWords2 == << Word(T_a, 1500, 1800), Word(T_a, 2500, 2800) >>
StitchWords3 == << WordEndNone(T_b, 200), Word(T_b, 1300, 1300) >>

\* chunks [0,10) and [8,18) with a 2 s overlap; three 3 s chunks with a 2 s
\* overlap; two 2 s chunks with a 1 s overlap
StitchInputs ==
    { << Config(FALSE, FALSE, TRUE, 10, 2), Audio(TRUE, 18000) >>,
      << Config(FALSE, FALSE, TRUE, 3, 2), Audio(TRUE, 5000) >>,
      << Config(FALSE, FALSE, TRUE, 2, 1), Audio(TRUE, 2500) >> }

StitchAsrOutcomes ==
    { Raises, Gives(AsrDictNoChunks(T_a)), Gives(AsrDict(<< >>, << >>)),
      Gives(AsrDict(StitchWords1, T_a \o T_a)),
      Gives(AsrDict(StitchWords2, T_a \o T_a)),
      Gives(AsrDict(StitchWords3, T_b \o T_b)) }

InitStitch ==
    InitWith(StitchInputs,
             { Stored(Annotation(Timeline1)) }, { Absent })

NextStitch ==
    \/ RunStart
    \/ PerformDiarization({ Raises })
    \/ AsrCacheLookup
    \/ AsrBatchedLoad(BOOLEAN)
    \/ ChunkLoopHead
    \/ ChunkBody(BOOLEAN, StitchAsrOutcomes)
    \/ ChunkFinally
    \/ AsrStitch
    \/ RunAfterAsr(BOOLEAN)
    \/ CombineBegin
    \/ CombineWord
    \/ CombineEnd
    \/ RunFinish(BOOLEAN)

SpecStitch == InitStitch /\ [][NextStitch]_vars

SortedByStart(segs) ==
    \A i, j \in 1..Len(segs) :
        i < j => segs[i].timestamp.start <= segs[j].timestamp.start

NoRepeatedKey(segs) ==
    \A i, j \in 1..Len(segs) :
        i # j => dedup_key(segs[i]) # dedup_key(segs[j])

\* C2: the word list of a result produced by batched ASR (returned to run()
\* and written to the cache) is sorted by non-decreasing start and holds
\* no two words with the same (start, end, text).
C2_StitchedSortedUnique ==
    /\ (pc = "after_asr" /\ asr_result # None) =>
           /\ SortedByStart(asr_result.chunks)
           /\ NoRepeatedKey(asr_result.chunks)
    /\ asr_cache.state = "pickle" =>
           /\ SortedByStart(asr_cache.obj.chunks)
           /\ NoRepeatedKey(asr_cache.obj.chunks)

\* batched ASR has returned a result whose accumulated words were out of
\* order and held a repeated (start, end, text)
C2_Witness ==
    /\ pc = "after_asr"
    /\ asr_result # None
    /\ ~SortedByStart(all_word_segments)
    /\ ~NoRepeatedKey(all_word_segments)
    /\ asr_cache = pickle_dump(asr_result)

\* C3 (as claimed): every word of the first chunk is accepted, and a word of
\* a later chunk is accepted if and only if its translated start is at or
\* after chunk.start + V/2.
C3_OverlapRule ==
    [][ (pc = "chunk_body" /\ pc' = "chunk_finally" /\ ~chunk_exc') =>
          LET claimed(seg) ==
                  \/ i_start_ms = 0
                  \/ seg.timestamp.start >= i_start_ms + overlap_ms \div 2
          IN  all_word_segments' =
                  all_word_segments \o SelectSeq(chunk_word_segments', claimed)
      ]_vars

---------------------------------------------------------------------------
(* Alignment and merge: one run without batching and with empty caches,    *)
(* the engines giving any timeline of CombineTimelines and any word list   *)
(* of at most MaxWords words of CombineVocabulary                          *)

Timeline3 == << Track(0, 1000, "SPEAKER_00"), Track(2000, 4000, "SPEAKER_00") >>

CombineTimelines == { Timeline1, Timeline2, Timeline3 }

CombineVocabulary ==
    { Word(T_a, 0, 400),            \* inside the first track
      Word(T_b, 700, 1100),         \* midpoint 900: in both tracks of Timeline1
      Word(T_space, 900, 1100),     \* midpoint 1000: the end of a track
      Word(T_a, 1400, 1400),        \* end <= start; 1.0 s after the first word
      Word(T_b, 100, 200),          \* inside the first word
      Word(T_b, 950, 1000),         \* right after the whitespace word starts
      WordNoTimestamp(T_a),
      WordEndNone(T_b, 500),        \* a start without an end
      WordTimestampNotPair(T_b),    \* a timestamp of the wrong length
      Word(T_b, 4500, 4600) }       \* after every track

SeqsUpTo(S, n) == UNION { [1..k -> S] : k \in 1..n }

CombineAsrOutcomes ==
    { Gives(AsrDict(words, T_a)) : words \in SeqsUpTo(CombineVocabulary, MaxWords) }

CombineDiarizationOutcomes ==
    { Gives(Annotation(tracks)) : tracks \in CombineTimelines }

InitCombine ==
    InitWith({ << Config(FALSE, FALSE, FALSE, 2, 1), Audio(TRUE, 5000) >> },
             { Absent }, { Absent })

NextCombine ==
    \/ RunStart
    \/ PerformDiarization(CombineDiarizationOutcomes)
    \/ AsrCacheLookup
    \/ AsrSingleShot(CombineAsrOutcomes)
    \/ RunAfterAsr({ TRUE })
    \/ CombineBegin
    \/ CombineWord
    \/ CombineEnd
    \/ RunFinish({ TRUE })

SpecCombine == InitCombine /\ [][NextCombine]_vars

\* the word the latest loop iteration processed, and whether it passed the
\* timestamp checks
LastWord == asr_result.chunks[word_index]
LastWordValid ==
    /\ pc = "combine_loop"
    /\ word_index >= 1
    /\ LastWord.timestamp.form = "pair"

\* a word's end as the merge sees it: start + 0.1 s when end <= start
EndSeen(word) ==
    IF word.timestamp.end <= word.timestamp.start
    THEN word.timestamp.start + 100
    ELSE word.timestamp.end

\* C4: a valid word processed while a current segment exists is merged into
\* it (text appended without separator, end set to the word's end) if and
\* only if its speaker is the current segment's and word.start - current.end
\* is below 1.0 s; otherwise the current segment is sealed (stripped, and
\* emitted when non-empty) and a new one is opened with the word's data.
C4_MergeRule ==
    [][ (pc = "combine_loop" /\ word_index' = word_index + 1
            /\ current_segment # NoSegment
            /\ asr_result.chunks[word_index'].timestamp.form = "pair") =>
          LET word == asr_result.chunks[word_index']
              same_run == /\ active_speaker' = current_segment.speaker
                          /\ word.timestamp.start - current_segment.end_time < 1000
          IN  IF same_run
              THEN /\ current_segment' =
                         [current_segment EXCEPT
                             !.text = current_segment.text \o word.text,
                             !.end_time = EndSeen(word)]
                   /\ final_segments' = final_segments
              ELSE /\ current_segment' =
                         Segment(active_speaker', word.text,
                                 word.timestamp.start, EndSeen(word))
                   /\ final_segments' =
                         IF strip(current_segment.text) = << >>
                         THEN final_segments
                         ELSE Append(final_segments,
                                  [current_segment EXCEPT
                                      !.text = strip(current_segment.text)])
      ]_vars

\* a word of the same speaker exactly 1.0 s after the end of the segment
\* before it has opened a new segment
C4_Witness ==
    /\ LastWordValid
    /\ final_segments # << >>
    /\ current_segment.start_time = LastWord.timestamp.start
    /\ current_segment.speaker = final_segments[Len(final_segments)].speaker
    /\ current_segment.start_time
          - final_segments[Len(final_segments)].end_time = 1000

\* the tracks that contain the timestamp whose double is twice_t
TracksContaining(tracks, twice_t) ==
    { i \in 1..Len(tracks) :
        2 * tracks[i].start <= twice_t /\ twice_t < 2 * tracks[i].end }

\* C5: the speaker looked up for a word's midpoint t is the label of the
\* first track in iteration order with start <= t < end, also when tracks of
\* several speakers contain t, and UNKNOWN_SPEAKER when no track contains t.
C5_SpeakerLookup ==
    LastWordValid =>
        LET tracks == diarization_result.tracks
            twice_t == LastWord.timestamp.start + EndSeen(LastWord)
            containing == TracksContaining(tracks, twice_t)
        IN  IF containing = { }
            THEN active_speaker = "UNKNOWN_SPEAKER"
            ELSE \E i \in containing :
                    /\ \A j \in containing : i <= j
                    /\ active_speaker = tracks[i].label

\* the midpoint of the word just looked up lies in two tracks of different
\* speakers, and the word got the speaker of the earlier one
C5_Witness ==
    /\ LastWordValid
    /\ LET tracks == diarization_result.tracks
           twice_t == LastWord.timestamp.start + EndSeen(LastWord)
       IN  \E i, j \in TracksContaining(tracks, twice_t) :
              /\ i < j
              /\ tracks[i].label # tracks[j].label
              /\ active_speaker = tracks[i].label

---------------------------------------------------------------------------
(* Properties of the cache discipline and of run() (specification Spec)    *)

StepOf(stage) == pc = stage /\ pc' # stage

PersistedByPipeline(file) == file.state = "pickle" /\ file.writer = "pipeline"

\* what the load of each stage accepts, stated on the stored object
DiarizationShape(obj) == obj.type = "Annotation"
AsrShape(obj) == obj.type = "dict" /\ obj.has_chunks

\* C6: with force-recompute off, a stage whose cache file holds an artifact
\* the pipeline persisted returns that artifact unchanged, without calling
\* its engine and without rewriting the file; and every artifact the
\* pipeline persists has the shape the load validates.
C6_CacheRoundTrip ==
    [][ /\ (StepOf("diarization") /\ ~config.force_recompute_diarization
               /\ PersistedByPipeline(diarization_cache)) =>
              /\ diarization_result' = diarization_cache.obj
              /\ engine_calls' = engine_calls
              /\ diarization_cache' = diarization_cache
        /\ (StepOf("asr") /\ ~config.force_recompute_asr
               /\ PersistedByPipeline(asr_cache)) =>
              /\ asr_result' = asr_cache.obj
              /\ pc' = "after_asr"
        /\ PersistedByPipeline(diarization_cache') =>
              DiarizationShape(diarization_cache'.obj)
        /\ PersistedByPipeline(asr_cache') => AsrShape(asr_cache'.obj)
      ]_vars

\* a second run has taken both artifacts from the files the first run wrote
C6_Witness ==
    /\ run_no = 2
    /\ pc = "after_asr"
    /\ ~config.force_recompute_diarization
    /\ ~config.force_recompute_asr
    /\ PersistedByPipeline(diarization_cache)
    /\ PersistedByPipeline(asr_cache)
    /\ diarization_result = diarization_cache.obj
    /\ asr_result = asr_cache.obj
    /\ asr_result.chunks # << >>
    /\ engine_calls = NoCalls

\* a cache file that holds no usable artifact: undeserializable bytes, an
\* object of the wrong type, or (ASR) a dict without a word list
UnusableDiarizationEntry(file) ==
    \/ file.state = "garbage"
    \/ file.state = "pickle" /\ file.obj.type # "Annotation"

UnusableAsrEntry(file) ==
    \/ file.state = "garbage"
    \/ /\ file.state = "pickle"
       /\ \/ file.obj.type # "dict"
          \/ ~file.obj.has_chunks
          \/ ~file.obj.chunks_is_list

\* C7 (as claimed): an unusable cache entry is treated as absent: the stage
\* goes on to recompute through the engine, and the entry does not by
\* itself make run() fail.
C7_CacheFailsClosed ==
    [][ /\ (StepOf("diarization") /\ UnusableDiarizationEntry(diarization_cache)) =>
              engine_calls'.diarization = engine_calls.diarization + 1
        /\ (StepOf("asr") /\ UnusableAsrEntry(asr_cache)) =>
              pc' = "asr_compute"
      ]_vars

\* C8: a stage whose force-recompute flag is set never opens its cache file
\* for reading, and when it has succeeded its engine has been invoked and
\* the cache file holds the artifact it returned.
C8_ForceRecompute ==
    /\ config.force_recompute_diarization =>
          /\ cache_reads.diarization = 0
          /\ (pc \in { "asr", "asr_compute", "chunk_loop", "chunk_body",
                       "chunk_finally", "asr_stitch", "after_asr", "combine",
                       "combine_loop", "save" }) =>
                /\ engine_calls.diarization = 1
                /\ diarization_cache = pickle_dump(diarization_result)
    /\ config.force_recompute_asr =>
          /\ cache_reads.asr = 0
          /\ (pc \in { "after_asr", "combine", "combine_loop", "save" }
                 /\ asr_result # None) =>
                /\ engine_calls.asr >= 1
                /\ asr_cache = pickle_dump(asr_result)

\* with both flags set, a second run has called both engines although the
\* first run had left valid entries, and has returned other segments
C8_Witness ==
    /\ config.force_recompute_diarization
    /\ config.force_recompute_asr
    /\ run_no = 2
    /\ pc = "done"
    /\ prev_result.kind = "list"
    /\ run_result.kind = "list"
    /\ run_result # prev_result
    /\ engine_calls.diarization = 1
    /\ engine_calls.asr >= 1
    /\ cache_reads = NoCalls
    /\ PersistedByPipeline(diarization_cache)
    /\ asr_cache = pickle_dump(asr_result)

\* C9: with both force-recompute flags off, a run that follows a successful
\* run returns the same segment list.
C9_Idempotent ==
    (/\ pc = "done"
     /\ run_no >= 2
     /\ ~config.force_recompute_diarization
     /\ ~config.force_recompute_asr
     /\ prev_result.kind = "list") => run_result = prev_result

\* a second run has returned the first run's non-empty segment list from
\* the artifacts the first run computed
C9_Witness ==
    /\ pc = "done"
    /\ run_no = 2
    /\ ~config.force_recompute_diarization
    /\ ~config.force_recompute_asr
    /\ prev_result.kind = "list"
    /\ prev_result.segments # << >>
    /\ run_result = prev_result
    /\ PersistedByPipeline(diarization_cache)
    /\ PersistedByPipeline(asr_cache)
    /\ engine_calls = NoCalls

InLog(stage) == \E i \in 1..Len(stage_log) : stage_log[i] = stage

\* C10: a missing input file ends run() with None before any stage; a
\* diarization stage that returned None ends run() with None, the ASR stage
\* and engine untouched; an ASR stage that returned None ends run() with
\* None; and the merge and the transcript write happen only after both
\* stages returned a result.
C10_FailureShortCircuit ==
    /\ [](/\ (~audio.is_file /\ pc = "done") =>
                /\ run_result = ReturnedNone
                /\ stage_log = << >>
                /\ engine_calls = NoCalls
          /\ (InLog("diarization") /\ diarization_result = None) =>
                /\ pc = "done"
                /\ run_result = ReturnedNone
                /\ stage_log = << "diarization" >>
                /\ engine_calls.asr = 0
          /\ (InLog("combine") \/ InLog("save_transcript")) =>
                /\ diarization_result # None
                /\ asr_result # None
          /\ run_result.kind = "list" =>
                /\ audio.is_file
                /\ diarization_result # None
                /\ asr_result # None)
    /\ [][ (pc = "after_asr" /\ asr_result = None) =>
              /\ pc' = "done"
              /\ run_result' = ReturnedNone
              /\ stage_log' = stage_log
              /\ transcript' = transcript
              /\ engine_calls' = engine_calls
         ]_vars

\* run() has returned None after the ASR stage returned None: the engine
\* was called, and neither the merge nor the transcript write happened
C10_Witness ==
    /\ pc = "done"
    /\ run_result = ReturnedNone
    /\ stage_log = << "diarization", "asr" >>
    /\ diarization_result # None
    /\ asr_result = None
    /\ engine_calls.asr >= 1
    /\ ~transcript.written

---------------------------------------------------------------------------
(* Short audio and degenerate chunk configurations (specification          *)
(* SpecPlan)                                                               *)

\* 0 <= V < C and D <= C
ShortAudioPrecondition ==
    /\ 0 <= config.asr_processing_chunk_overlap_s
    /\ config.asr_processing_chunk_overlap_s < config.asr_processing_chunk_duration_s
    /\ audio.duration_ms <= chunk_duration_ms

\* C11 (as claimed): for D <= C and 0 <= V < C the loop is left with exactly
\* one window planned, the window [0, D).
C11_OneChunk ==
    (ShortAudioPrecondition /\ pc = "asr_stitch") =>
        windows = << << 0, audio.duration_ms >> >>

\* C11 (amended): for 0 < D <= C and 0 <= V < C at most one window is ever
\* planned and the loop is left with exactly the window [0, D); for D = 0
\* the loop is left with no window.
C11_OneChunkPositive ==
    ShortAudioPrecondition =>
        /\ Len(windows) <= 1
        /\ pc = "asr_stitch" =>
              IF audio.duration_ms > 0
              THEN windows = << << 0, audio.duration_ms >> >>
              ELSE windows = << >>

\* the loop is left with the single window [0, D) for an audio shorter
\* than the chunk duration, with a positive overlap
C11_Witness ==
    /\ ShortAudioPrecondition
    /\ pc = "asr_stitch"
    /\ 0 < audio.duration_ms
    /\ audio.duration_ms < chunk_duration_ms
    /\ config.asr_processing_chunk_overlap_s > 0
    /\ windows = << << 0, audio.duration_ms >> >>
    /\ engine_calls.asr = 1

---------------------------------------------------------------------------
(* Empty results (specification Spec)                                      *)

\* both stages returned a result and the ASR result is a list of no words
EmptyValidAsrResult ==
    /\ diarization_result # None
    /\ ~asr_failed(asr_result)
    /\ asr_result.chunks = << >>

NoSegmentsTranscript == [written |-> TRUE, lines |-> << NO_SEGMENTS_LINE >>]

\* C12: when the ASR result is a valid list of no words (with or without a
\* full text), run() goes on to return the empty segment list, never None,
\* and the transcript it writes is the single line 'No speech segments
\* identified or combined.' (the file is left as it was only when the write
\* itself fails with an IOError, which _save_transcript catches).
C12_EmptyResultSucceeds ==
    /\ []((pc = "done" /\ EmptyValidAsrResult) =>
             /\ run_result = Returned(<< >>)
             /\ InLog("save_transcript"))
    /\ [][ (EmptyValidAsrResult /\ pc \in { "after_asr", "combine", "save" }) =>
              /\ pc' \in { "done", "combine", "save" }
              /\ pc' = "done" =>
                    /\ run_result' = Returned(<< >>)
                    /\ transcript' \in { NoSegmentsTranscript, transcript }
         ]_vars

\* a second run whose engine heard no words has returned the empty list and
\* replaced the first run's transcript by the single line
C12_Witness ==
    /\ pc = "done"
    /\ run_no = 2
    /\ prev_result.kind = "list"
    /\ prev_result.segments # << >>
    /\ EmptyValidAsrResult
    /\ engine_calls.asr >= 1
    /\ run_result = Returned(<< >>)
    /\ transcript = NoSegmentsTranscript

---------------------------------------------------------------------------
(* Construction: DiarizationConfig(...) for two configurations that share  *)
(* the input file and the output directory, then                           *)
(* SpeechDiarizationPipeline(config) for the first, then its run() with    *)
(* engines that fail (specification SpecConstruct)                         *)

\* a decision that also batches at the threshold
batching_decision_inclusive(a, au) ==
    CASE a.enable_asr_batching = "True" -> TRUE
      [] a.enable_asr_batching = "False" -> FALSE
      [] OTHER -> /\ au.info_readable
                  /\ au.duration_ms >= a.min_audio_length_for_batching_s * MS_PER_S

\* SpeechDiarizationPipeline.__init__: config.enable_asr_batching after it
batching_decision(a, au) ==
    CASE a.enable_asr_batching = "True" -> TRUE
      [] a.enable_asr_batching = "False" -> FALSE
      [] OTHER -> /\ au.info_readable
                  /\ au.duration_ms > a.min_audio_length_for_batching_s * MS_PER_S

\* the second configuration is constructed (and its pipeline, which settles
\* its batching flag) and its cache paths are resolved
ConstructRival ==
    /\ pc = "init"
    /\ cache_paths.rival_diarization = << >>
    /\ cache_paths' =
          [cache_paths EXCEPT
              !.rival_diarization = diarization_cache_path(rival_args),
              !.rival_asr = asr_cache_file_path(rival_args,
                                batching_decision(rival_args, audio))]
    /\ UNCHANGED << env, diarization_cache, asr_cache, transcript,
                    temp_chunk_files, pc, run_result, diarization_result,
                    asr_result, asr_locals, combine_locals, run_no,
                    prev_result, caches_at_start, engine_calls, engine_failed,
                    cache_reads, stage_log >>

\* DiarizationConfig(...) and SpeechDiarizationPipeline(config)
Construct ==
    /\ pc = "init"
    /\ config' = [config EXCEPT
                     !.enable_asr_batching = batching_decision(args, audio)]
    /\ cache_paths' =
          [cache_paths EXCEPT
              !.diarization = diarization_cache_path(args),
              !.asr = asr_cache_file_path(args, batching_decision(args, audio))]
    /\ pc' = "run"
    /\ UNCHANGED << audio, args, rival_args, diarization_cache, asr_cache,
                    transcript, temp_chunk_files, run_result,
                    diarization_result, asr_result, asr_locals,
                    combine_locals, run_no, prev_result, caches_at_start,
                    engine_calls, engine_failed, cache_reads, stage_log >>

DiarizationModels == { << "p", "/", "d" >>, << "p", "/", "e" >> }
AsrModels == { << "r", "/", "w" >>, << "r", "_", "w" >>, << "r", "/", "x" >> }

ConstructArgs ==
    { Args(<< "t" >>, dm, am, e, 2) :
         dm \in DiarizationModels, am \in AsrModels,
         e \in { "None", "True", "False" } }

\* durations below, at and above the threshold; a missing file; a file
\* whose duration cannot be read
ConstructAudios ==
    { Audio(TRUE, 1500), Audio(TRUE, 2000), Audio(TRUE, 2500),
      Audio(FALSE, 2500),
      [Audio(TRUE, 2500) EXCEPT !.info_readable = FALSE] }

\* before construction config holds the other arguments; its batching flag
\* is set by Construct
InitConstruct ==
    /\ args \in ConstructArgs
    /\ rival_args \in { Args(args.stem, dm, am, args.enable_asr_batching,
                             args.min_audio_length_for_batching_s) :
                           dm \in DiarizationModels, am \in AsrModels }
    /\ audio \in ConstructAudios
    /\ config = Config(FALSE, FALSE, FALSE, 2, 1)
    /\ diarization_cache = Absent
    /\ asr_cache = Absent
    /\ cache_paths = NoPaths
    /\ caches_at_start = caches_now
    /\ pc = "init"
    /\ InitLocals

NextConstruct ==
    \/ ConstructRival
    \/ Construct
    \/ RunStart
    \/ PerformDiarization({ Gives(Annotation(Timeline2)) })
    \/ AsrCacheLookup
    \/ AsrSingleShot({ Raises })
    \/ AsrBatchedLoad({ FALSE })
    \/ RunAfterAsr({ TRUE })

SpecConstruct == InitConstruct /\ [][NextConstruct]_vars

\* C13 (as claimed): two configurations for the same input file and output
\* directory that differ in the diarization model resolve different
\* diarization cache paths, and two that differ in the ASR model resolve
\* different ASR cache paths.
C13_KeysNeverCollide ==
    (cache_paths.diarization # << >> /\ cache_paths.rival_diarization # << >>) =>
        /\ args.diarization_model # rival_args.diarization_model =>
              cache_paths.diarization # cache_paths.rival_diarization
        /\ args.asr_model # rival_args.asr_model =>
              cache_paths.asr # cache_paths.rival_asr

\* C20: after construction an explicit enable_asr_batching is the flag the
\* pipeline uses, whatever the duration; when it was unset the flag is on
\* exactly when the duration could be read and is strictly greater than
\* min_audio_length_for_batching_s; and the ASR stage computes in the mode
\* the flag names.
C20_BatchingDecision ==
    /\ pc # "init" =>
          config.enable_asr_batching =
             IF args.enable_asr_batching = "True" THEN TRUE
             ELSE IF args.enable_asr_batching = "False" THEN FALSE
             ELSE IF ~audio.info_readable THEN FALSE
             ELSE audio.duration_ms
                     > args.min_audio_length_for_batching_s * MS_PER_S
    /\ (pc = "after_asr" /\ args.enable_asr_batching = "None") =>
          engine_calls.asr =
             IF audio.info_readable
                /\ audio.duration_ms
                      > args.min_audio_length_for_batching_s * MS_PER_S
             THEN 0 ELSE 1

\* batching was left unset, the duration equals the threshold, and the ASR
\* stage has run single-shot
C20_Witness ==
    /\ pc = "after_asr"
    /\ args.enable_asr_batching = "None"
    /\ audio.info_readable
    /\ audio.duration_ms = args.min_audio_length_for_batching_s * MS_PER_S
    /\ ~config.enable_asr_batching
    /\ engine_calls.asr = 1

---------------------------------------------------------------------------
(* Batched ASR: temporary files and chunk failures (specification Spec)    *)

\* C14: at most one temporary chunk file exists at any time; one exists
\* only between the head of a chunk's iteration and its finally clause, so
\* none exists when the next chunk is started, when the loop is left, or
\* after the ASR stage has ended, whether the chunk's export failed, the
\* engine raised or the chunk succeeded.
C14_TempFilesScoped ==
    /\ temp_chunk_files \in { 0, 1 }
    /\ temp_chunk_files = 1 <=> pc \in { "chunk_body", "chunk_finally" }

\* the stage has ended in failure on its second chunk, after two temporary
\* files were created, and none is left
C14_Witness ==
    /\ pc = "after_asr"
    /\ asr_result = None
    /\ Len(windows) = 2
    /\ engine_calls.asr = 2
    /\ temp_chunk_files = 0

\* C15: when an exception leaves a chunk's try body (the engine raised, or
\* the export failed), the stage ends at once with the failure outcome: no
\* further window is planned, the engine is not called again, the ASR cache
\* file is left as it was, and run() then returns None without merging or
\* writing anything.
C15_ChunkFailureAborts ==
    [][ /\ (pc = "chunk_finally" /\ chunk_exc) =>
              /\ pc' = "after_asr"
              /\ asr_result' = None
              /\ asr_cache' = asr_cache
              /\ windows' = windows
              /\ engine_calls' = engine_calls
        /\ (pc = "after_asr" /\ asr_result = None) =>
              /\ pc' = "done"
              /\ run_result' = ReturnedNone
              /\ asr_cache' = asr_cache
              /\ transcript' = transcript
              /\ windows' = windows
              /\ engine_calls' = engine_calls
              /\ stage_log' = stage_log
      ]_vars

\* run() has returned None after the engine failed on the second chunk,
\* with words of the first chunk accumulated and no cache entry written
C15_Witness ==
    /\ pc = "done"
    /\ run_result = ReturnedNone
    /\ config.enable_asr_batching
    /\ asr_result = None
    /\ Len(windows) = 2
    /\ engine_calls.asr = 2
    /\ all_word_segments # << >>
    /\ asr_cache.state = "absent"
    /\ ~transcript.written

---------------------------------------------------------------------------
(* The overlap shared by consecutive chunks (specification SpecStitch)     *)

\* the chunk at start_ms is followed by another chunk
HasNextChunk(start_ms) ==
    /\ i_end_ms(start_ms) # audio.duration_ms
    /\ range_has(start_ms + step_ms)

\* C16 (as claimed): of the words a chunk adds to the stream, one that
\* starts in the overlap with the next chunk starts before the next chunk's
\* start + V/2, and one that starts in the overlap with the previous chunk
\* starts at or after this chunk's start + V/2.
C16_OverlapHalved ==
    [][ (pc = "chunk_body" /\ pc' = "chunk_finally" /\ ~chunk_exc') =>
          \A i \in (Len(all_word_segments) + 1)..Len(all_word_segments') :
             LET start == all_word_segments'[i].timestamp.start
                 next_start_ms == i_start_ms + step_ms
             IN  /\ (HasNextChunk(i_start_ms) /\ start >= next_start_ms) =>
                        start < next_start_ms + overlap_ms \div 2
                 /\ (i_start_ms > 0 /\ start < i_start_ms + overlap_ms) =>
                        start >= i_start_ms + overlap_ms \div 2
      ]_vars

---------------------------------------------------------------------------
(* The segments _combine_results returns (specification SpecCombine)       *)

Trimmed(text) == strip(text) = text

\* C17 (as claimed): every segment of the list _combine_results returns,
\* the last one included, has a text that is non-empty and has no leading
\* or trailing whitespace.
C17_SegmentsTrimmed ==
    pc = "save" =>
        \A i \in 1..Len(final_segments) :
            /\ final_segments[i].text # << >>
            /\ Trimmed(final_segments[i].text)

---------------------------------------------------------------------------
(* Degenerate chunk configurations (specification SpecPlan)                *)

\* C18 (as claimed): with batching enabled, V >= C and an audio that has a
\* duration, no chunk is computed, no ASR cache entry is written and run()
\* does not return a segment list.
C18_DegenerateRejected ==
    (/\ config.asr_processing_chunk_overlap_s
           >= config.asr_processing_chunk_duration_s
     /\ audio.duration_ms > 0) =>
        /\ windows = << >>
        /\ asr_cache = Absent
        /\ run_result.kind # "list"

---------------------------------------------------------------------------
(* Engine results without a word list (specification Spec)                 *)

LacksChunks(result) == result.type = "dict" /\ ~result.has_chunks

\* C19 (as claimed): a result without 'chunks' never leaves the ASR stage
\* in single-shot mode, and in batched mode a chunk whose engine result has
\* no 'chunks' ends the stage with the failure outcome.
C19_MissingChunksFatal ==
    /\ []((pc = "after_asr" /\ asr_result # None) => ~LacksChunks(asr_result))
    /\ [][ (pc = "chunk_finally" /\ LacksChunks(last_asr_chunk_result)) =>
              /\ pc' = "after_asr"
              /\ asr_result' = None
         ]_vars

---------------------------------------------------------------------------
(* Engine invocations and the order of the stages (specification Spec)     *)

\* C21: in one run the diarization engine is invoked at most once; the ASR
\* engine is invoked at most once in single-shot mode and at most once per
\* planned window in batched mode (so a failed call is never repeated); and
\* a stage that finds a valid cache entry with its force-recompute flag off
\* does not invoke its engine.
C21_EngineCalls ==
    /\ [](/\ engine_calls.diarization <= 1
          /\ ~config.enable_asr_batching => engine_calls.asr <= 1
          /\ config.enable_asr_batching => engine_calls.asr <= Len(windows)
          /\ pc \in { "run", "diarization" } => engine_calls = NoCalls
          /\ pc \in { "asr", "asr_compute" } => engine_calls.asr = 0)
    /\ [][ /\ (StepOf("diarization")
                  /\ ~config.force_recompute_diarization
                  /\ diarization_cache.state = "pickle"
                  /\ DiarizationShape(diarization_cache.obj)) =>
                 engine_calls' = engine_calls
           /\ (StepOf("asr")
                  /\ ~config.force_recompute_asr
                  /\ asr_cache.state = "pickle"
                  /\ AsrShape(asr_cache.obj)) =>
                 /\ pc' = "after_asr"
                 /\ engine_calls' = engine_calls
           /\ pc \in { "after_asr", "combine", "combine_loop", "save", "done" } =>
                 \/ engine_calls' = engine_calls
                 \/ pc' = "run"
         ]_vars

\* a batched run that computed both stages has ended after one diarization
\* call and one ASR call for each of its two windows
C21_Witness ==
    /\ pc = "done"
    /\ run_result.kind = "list"
    /\ config.enable_asr_batching
    /\ Len(windows) = 2
    /\ engine_calls = [diarization |-> 1, asr |-> 2]

IsPrefix(s, t) == Len(s) <= Len(t) /\ \A i \in 1..Len(s) : s[i] = t[i]

\* what both statements of C22 share: the ASR stage is entered only with a
\* diarization result, the merge only with an ASR result, the stages are
\* entered in the order diarization, ASR, merge, transcript, and in batched
\* mode the windows have increasing starts and the engine is called for a
\* window only after the calls for all earlier windows have returned
StagesInOrder ==
    /\ InLog("asr") => diarization_result # None
    /\ InLog("combine") => /\ diarization_result # None
                           /\ asr_result # None
                           /\ pc \in { "combine_loop", "save", "done" }
    /\ \/ IsPrefix(stage_log,
                   << "diarization", "asr", "combine", "save_transcript" >>)
       \/ stage_log = << "diarization", "asr", "save_transcript" >>
    /\ \A i, j \in 1..Len(windows) : i < j => windows[i][1] < windows[j][1]
    /\ pc = "chunk_body" => engine_calls.asr = Len(windows) - 1
    /\ pc = "chunk_finally" => engine_calls.asr \in { Len(windows) - 1, Len(windows) }

TranscriptWriteStarts == stage_log' = Append(stage_log, "save_transcript")

\* C22 (as claimed): the stages run in order, and the transcript is written
\* only after the merge has completed.
C22_StagesSequential ==
    /\ []StagesInOrder
    /\ [][ TranscriptWriteStarts =>
              /\ asr_result # None
              /\ pc = "save"
         ]_vars

\* C22 (amended): the stages run in order, and the transcript is written
\* only after the merge has completed or, when the ASR result has neither
\* words nor text, straight after the ASR stage with no merge at all.
C22_StagesSequentialOrNoMerge ==
    /\ []StagesInOrder
    /\ [][ TranscriptWriteStarts =>
              /\ asr_result # None
              /\ IF pc = "after_asr"
                 THEN asr_result.chunks = << >> /\ asr_result.text = << >>
                 ELSE pc = "save"
         ]_vars

\* a batched run has gone through all four stages over two windows
C22_Witness ==
    /\ pc = "done"
    /\ stage_log = << "diarization", "asr", "combine", "save_transcript" >>
    /\ config.enable_asr_batching
    /\ Len(windows) = 2
    /\ engine_calls.asr = 2
    /\ run_result.kind = "list"
    /\ run_result.segments # << >>

---------------------------------------------------------------------------
(* Word-level recovery in the merge (specification SpecCombine)            *)

NumericPair(word) == word.timestamp.form = "pair"

IsSuffix(s, t) ==
    /\ Len(s) <= Len(t)
    /\ \A i \in 1..Len(s) : s[i] = t[Len(t) - Len(s) + i]

\* C23: word-level recovery never aborts the run.  A chunk whose engine
\* result is a dict with a word list never fails on a word; in the merge a
\* word whose timestamp is missing or not a pair of numbers changes nothing
\* and the loop goes on with the next word, while a word with a numeric pair
\* always enters the current segment, its text at the end of the segment's
\* text, with end = start + 0.1 s when its end <= its start, and is looked up
\* at the midpoint computed from that end; and a merge always ends with
\* run() returning a segment list.
C23_WordRecovery ==
    /\ []((pc = "done" /\ InLog("combine")) => run_result.kind = "list")
    /\ [][ /\ (/\ pc = "chunk_body" /\ pc' = "chunk_finally"
                /\ last_asr_chunk_result'.type = "dict"
                /\ last_asr_chunk_result'.has_chunks
                /\ last_asr_chunk_result'.chunks_is_list) => ~chunk_exc'
           /\ (pc = "combine_loop" /\ word_index' = word_index + 1) =>
                 LET word == asr_result.chunks[word_index + 1]
                     end_ms == IF word.timestamp.end <= word.timestamp.start
                               THEN word.timestamp.start + 100
                               ELSE word.timestamp.end
                 IN  /\ pc' = "combine_loop"
                     /\ IF NumericPair(word)
                        THEN /\ current_segment' # NoSegment
                             /\ current_segment'.end_time = end_ms
                             /\ IsSuffix(word.text, current_segment'.text)
                             /\ active_speaker' =
                                   _get_speaker_for_word(diarization_result.tracks,
                                       word.timestamp.start + end_ms)
                        ELSE /\ current_segment' = current_segment
                             /\ final_segments' = final_segments
         ]_vars

\* the merge part of C23 alone: it is the chunk part that fails
C23_MergeRecovery ==
    /\ []((pc = "done" /\ InLog("combine")) => run_result.kind = "list")
    /\ [][ (pc = "combine_loop" /\ word_index' = word_index + 1) =>
              LET word == asr_result.chunks[word_index + 1]
              IN  /\ pc' = "combine_loop"
                  /\ NumericPair(word) =>
                        /\ current_segment' # NoSegment
                        /\ current_segment'.end_time = word_end_of(word)
                        /\ IsSuffix(word.text, current_segment'.text)
                  /\ ~NumericPair(word) =>
                        /\ current_segment' = current_segment
                        /\ final_segments' = final_segments
         ]_vars

---------------------------------------------------------------------------
(* Segments as maximal runs (specification SpecCombine)                    *)

\* the words of the ASR result that pass the timestamp checks are in order
\* of start
ValidWordsInStartOrder ==
    \A i, j \in 1..Len(asr_result.chunks) :
        (i < j /\ NumericPair(asr_result.chunks[i])
               /\ NumericPair(asr_result.chunks[j])) =>
            asr_result.chunks[i].timestamp.start
                <= asr_result.chunks[j].timestamp.start

\* C24 (as claimed): any two consecutive segments of the list
\* _combine_results returns differ in speaker or are at least 1.0 s apart
\* (the later one's start minus the earlier one's end).
C24_MaximalRuns ==
    pc = "save" =>
        \A i \in 1..(Len(final_segments) - 1) :
            \/ final_segments[i].speaker # final_segments[i + 1].speaker
            \/ final_segments[i + 1].start_time - final_segments[i].end_time
                   >= MERGE_GAP_MS

\* the same for a word list whose valid words are in order of start
C24_MaximalRunsSorted ==
    (pc = "save" /\ ValidWordsInStartOrder) =>
        \A i \in 1..(Len(final_segments) - 1) :
            \/ final_segments[i].speaker # final_segments[i + 1].speaker
            \/ final_segments[i + 1].start_time - final_segments[i].end_time
                   >= MERGE_GAP_MS

---------------------------------------------------------------------------
(* The end of a growing segment (specification SpecCombine)                *)

\* C25 (as claimed): for a word list in order of start, a word that is
\* merged into the current segment never moves the segment's end backwards:
\* the end after the merge is at least the end before it.
C25_MergeNeverShortens ==
    [][ (/\ pc = "combine_loop"
         /\ word_index' = word_index + 1
         /\ ValidWordsInStartOrder
         /\ NumericPair(asr_result.chunks[word_index + 1])
         /\ current_segment # NoSegment
         /\ merges(current_segment, active_speaker',
                   asr_result.chunks[word_index + 1].timestamp.start)) =>
            current_segment'.end_time >= current_segment.end_time ]_vars

---------------------------------------------------------------------------
(* What run() gives its caller (specification Spec)                        *)

\* C26 (as claimed): no exception escapes run(): every run ends by returning
\* None or a segment list, also when writing a stage's cache entry fails
\* after the engine succeeded.
C26_NoExceptionEscapes ==
    /\ run_result # Escaped
    /\ pc = "done" => run_result.kind \in { "None", "list" }

---------------------------------------------------------------------------
(* Engine failures and the caches (specification Spec)                     *)

\* C27: once the diarization engine has raised in a run, the diarization
\* cache file is what the run found at its start, up to and including the
\* end of the run; and once the ASR engine has raised, on the full file or
\* on any chunk, the same holds for the ASR cache file, with or without
\* force-recompute.
C27_EngineFailureKeepsCache ==
    /\ engine_failed.diarization =>
          diarization_cache = caches_at_start.diarization
    /\ engine_failed.asr => asr_cache = caches_at_start.asr

\* a run with force-recompute and batching has ended after the ASR engine
\* raised on the second chunk, and the old artifact is still in the cache
C27_Witness ==
    /\ pc = "done"
    /\ engine_failed.asr
    /\ config.force_recompute_asr
    /\ config.enable_asr_batching
    /\ engine_calls.asr = 2
    /\ asr_cache.state = "pickle"
    /\ asr_cache = caches_at_start.asr

\* the other cases of C27: the ASR engine raised on the full file with no
\* cache entry, and the diarization engine raised over a stored artifact
C27_WitnessSingleShot ==
    /\ pc = "done"
    /\ engine_failed.asr
    /\ ~config.enable_asr_batching
    /\ asr_cache = Absent

C27_WitnessDiarization ==
    /\ pc = "done"
    /\ engine_failed.diarization
    /\ config.force_recompute_diarization
    /\ diarization_cache.state = "pickle"

---------------------------------------------------------------------------
(* Conservation of text by the merge (specification SpecCombine)           *)

\* the in-order concatenation of a sequence of texts
RECURSIVE Concatenation(_)
Concatenation(texts) ==
    IF texts = << >> THEN << >>
    ELSE Head(texts) \o Concatenation(Tail(texts))

\* the texts of the words that pass the timestamp checks, in order
RECURSIVE ValidWordTexts(_)
ValidWordTexts(words) ==
    IF words = << >> THEN << >>
    ELSE IF NumericPair(Head(words))
         THEN << Head(words).text >> \o ValidWordTexts(Tail(words))
         ELSE ValidWordTexts(Tail(words))

\* the sealed texts that are not whitespace-only, in order
RECURSIVE Emitted(_)
Emitted(texts) ==
    IF texts = << >> THEN << >>
    ELSE IF strip(Head(texts)) # << >>
         THEN << Head(texts) >> \o Emitted(Tail(texts))
         ELSE Emitted(Tail(texts))

\* C28: the merge conserves text.  While the loop runs, the untrimmed texts
\* of the segments sealed so far followed by the current segment's text are
\* the texts of the valid words processed so far, in order; when
\* _combine_results returns, the untrimmed texts of all sealed segments,
\* emitted or discarded, concatenate to the texts of all valid words, and
\* the returned segments are exactly the sealed segments that are not
\* whitespace-only, in order.
C28_TextConserved ==
    /\ pc = "combine_loop" =>
          Concatenation(sealed_texts)
              \o (IF current_segment = NoSegment THEN << >>
                  ELSE current_segment.text)
          = Concatenation(ValidWordTexts(
                SubSeq(asr_result.chunks, 1, word_index)))
    /\ (pc = "save" /\ InLog("combine")) =>
          /\ Concatenation(sealed_texts)
                = Concatenation(ValidWordTexts(asr_result.chunks))
          /\ Len(final_segments) = Len(Emitted(sealed_texts))
          /\ \A i \in 1..Len(final_segments) :
                strip(final_segments[i].text) = strip(Emitted(sealed_texts)[i])

\* a merge returned after it emitted a segment of two words, discarded a
\* whitespace-only segment and skipped no text of a valid word
C28_Witness ==
    /\ pc = "save"
    /\ InLog("combine")
    /\ Len(sealed_texts) = 2
    /\ Len(final_segments) = 1
    /\ Len(ValidWordTexts(asr_result.chunks)) = 3
    /\ Concatenation(sealed_texts) # << >>

====
